---- MODULE Spec2Model ----
(***************************************************************************)
(* The signal / order-execution decision loop of the three trading bots    *)
(* of the repository: src/simple_bot.py, src/solana_bot.py, src/app.py.    *)
(*                                                                         *)
(* One behaviour is one run of ONE of the three programs (variable bot).   *)
(* A thread of control (a trading-loop thread started by start_bot, or a   *)
(* Flask worker serving manual_buy / manual_sell) occupies a slot; its     *)
(* position is th[s].pc.  A thread takes one step per blocking call: the   *)
(* step that handles the reply of a request runs the straight-line code up *)
(* to the next request (or sleep) and issues it.  While th[s].pc names a   *)
(* request, that request is in flight (th[s].req = "sent") or was refused  *)
(* by make_api_request before being sent (th[s].req = "refused").          *)
(*                                                                         *)
(* Units: SOL quantities are integers in 10^-5 SOL, prices and USDT        *)
(* amounts are integers in USDT.                                           *)
(***************************************************************************)
EXTENDS Integers, Sequences, FiniteSets, TLC

\* ------------------------------------------------------------------ bounds
\* number of slots for threads of control that exist at the same time
NSlots == 2
\* iterations of the inter-tick wait (config.check_interval one-second steps)
WaitSteps == 2
\* longest trade_history the model follows
MaxTrades == 2
\* the count of consecutive ticks without signals stops here
MaxMisses == 3
\* longest candle series given to simple_bot.py's indicators
MaxCandles == 27

\* ------------------------------------------------------ program constants
\* config.trade_percentage (simple_bot.py:28, solana_bot.py:40)
trade_percentage == 50
\* minimum notional in USDT (simple_bot.py:400, simple_bot.py:494)
MinNotional == 15
\* minimum lot of simple_bot.py and app.py: 0.1 SOL
MinLotTenth == 10000
\* minimum lot of solana_bot.py: 0.01 SOL
MinLotHundredth == 1000
\* app.py config.base_trade_amount: 0.2 SOL
base_trade_amount == 20000
\* solana_bot.py config.sol_trade_amount: 1.0 SOL
sol_trade_amount == 100000
\* one SOL in model units
SolUnit == 10 ^ 5
\* solana_bot.py config.trade_type: 'percentage' at construction, and
\* update_settings can store either value at any time, so a read of it
\* finds either
TradeTypes == {"percentage", "fixed"}
\* the percentage parameter of a manual_buy request of solana_bot.py
ManualPercentage == 50

Bots == {"simple", "solana", "app"}
Slots == 1..NSlots

\* the values the exchange answers with
Prices == {50, 100}
UsdtBalances == {10, 100}
SolBalances == {20006}
\* amounts of app.py's manual_buy / manual_sell requests (0.1 and 1.0 SOL)
ManualAmounts == {10000}
\* RSI values the candles can give (one per zone) and solana_bot.py's thresholds
RsiValues == {20, 80}
rsi_oversold == 30
rsi_overbought == 70
\* solana_bot.py config.require_rsi_cycle, config.profit_target_percent
require_rsi_cycle == TRUE
profit_target_percent == 1
\* app.py indicator values: MACD signal, volume ratio times 10, signed trend
\* strength times 100; thresholds of Config times the same factors
MacdValues == {-1, 0, 1}
VolumeValues == {10, 18}
TrendValues == {-50, -20, 0, 20, 50}
min_volume_multiplier == 18
trend_strength_min == 40
\* app.py config.risk_multiplier times 1000, config.trailing_stop in percent
risk_multiplier == 1500
trailing_stop == 8

VARIABLES
    bot,                \* which of the three programs runs
    is_configured,      \* config.is_configured
    has_base_url,       \* whether Config defines base_url
    start_error,        \* start_bot has answered 'API not configured'
    data,               \* simple_bot: candles handed to the indicators
    signals,            \* simple_bot: <<indicator, signal>> pairs computed from data
    config,             \* the settings update_settings validates and stores
    current_sol_balance,    \* app: trading_state.current_sol_balance
    current_usdt_balance,   \* app: trading_state.current_usdt_balance
    last_signals_price,     \* app: trading_state.last_signals.get('price', 0)
    daily_starting_balance, \* app: trading_state.daily_starting_balance
    is_running,         \* trading_state.is_running
    last_position,      \* trading_state.last_position: "none", "long", "short"
    last_trade_time,    \* trading_state.last_trade_time: 0 is None, else a stamp
    trade_history,      \* trading_state.trade_history: sequence of actions
    last_buy_price,     \* solana_bot: trading_state.last_buy_price, 0 is None
    rsi_cycle_complete, \* solana_bot: trading_state.rsi_cycle_complete
    last_rsi_value,     \* solana_bot: trading_state.last_rsi_value
    entry_price,        \* app: trading_state.entry_price, 0 is None
    highest_price,      \* app: trading_state.highest_price_since_entry, 0 is None
    th                  \* the threads of control, by slot

riskv == <<current_sol_balance, current_usdt_balance, last_signals_price,
           daily_starting_balance>>
cfg == <<bot, is_configured, has_base_url, data, signals, config, riskv>>
env == <<bot, is_configured, has_base_url, start_error, data, signals, config,
         riskv>>
posv == <<last_position, last_trade_time, trade_history>>
rsiv == <<rsi_cycle_complete, last_rsi_value>>
auxv == <<last_buy_price, rsi_cycle_complete, last_rsi_value, entry_price,
          highest_price>>
vars == <<bot, is_configured, has_base_url, start_error, data, signals,
          config, riskv, is_running, last_position,
          last_trade_time, trade_history, last_buy_price, rsi_cycle_complete,
          last_rsi_value, entry_price, highest_price, th>>

\* a Python float: a number (v) or nan
Float(v) == [nan |-> FALSE, v |-> v]
NaN == [nan |-> TRUE, v |-> 0]

\* a < b on floats: False when either side is nan
FloatLt(a, b) == ~a.nan /\ ~b.nan /\ a.v < b.v

\* Config.__init__: the settings before any update_settings request
\* (sol_trade_amount in 10^-5 SOL, profit_target_percent in tenths of a
\* percent)
DefaultConfig ==
    [trade_type |-> "percentage", trade_percentage |-> trade_percentage,
     sol_trade_amount |-> Float(sol_trade_amount), check_interval |-> 900,
     indicator_interval |-> "15m", rsi_period |-> 14,
     rsi_oversold |-> rsi_oversold, rsi_overbought |-> rsi_overbought,
     profit_target_percent |-> Float(10 * profit_target_percent),
     require_rsi_cycle |-> require_rsi_cycle]

\* a slot with no thread in it
Idle ==
    [pc |-> "free", role |-> "none", req |-> "none", sig |-> "none",
     why |-> "none", side |-> "none", amount |-> 0, bal |-> 0, qty |-> 0,
     price |-> 0, sprice |-> 0, sent |-> <<>>, acc |-> FALSE,
     res |-> "none", wleft |-> 0, misses |-> 0, votes |-> <<>>,
     trend |-> 0]

\* a trading-loop thread right after threading.Thread(...).start()
NewLoop == [Idle EXCEPT !.pc = "top", !.role = "loop"]

\* ------------------------------------------------------- make_api_request
\* The part of make_api_request that runs before the request is sent:
\* "sent" when the HTTP request goes out, "refused" when the function
\* returns {'error': ...} without sending.  assets is TRUE for the balance
\* endpoint, the only one exempt from the is_running test.  In app.py
\* Config has no base_url, so evaluating config.base_url raises
\* AttributeError inside the try block and the except clause turns it into
\* an error reply.
\* a make_api_request without the is_running test
make_api_requestUnguarded(assets) ==
    IF ~is_configured THEN "refused"
    ELSE IF ~has_base_url THEN "refused"
    ELSE "sent"

make_api_request(assets) ==
    IF ~is_configured THEN "refused"
    ELSE IF ~is_running /\ ~assets THEN "refused"
    ELSE IF ~has_base_url THEN "refused"
    ELSE "sent"

\* replies the exchange can give to a request: none reaches a refused one
Answered(s) == th[s].req = "sent"

\* ------------------------------------------------------------- the wait
\* Entering the inter-tick wait.  simple_bot / solana_bot: the for loop
\* tests is_running before each time.sleep(1); app.py calls
\* time.sleep(config.check_interval) once.
EnterWait(t) ==
    LET r == [Idle EXCEPT !.role = t.role, !.res = t.res, !.acc = t.acc,
                          !.sent = t.sent, !.misses = t.misses] IN
    IF bot = "app" \/ is_running
    THEN [r EXCEPT !.pc = "wait", !.wleft = WaitSteps - 1]
    ELSE [r EXCEPT !.pc = "top"]

\* a tick starts: the locals of the last tick are gone
ClearCall(t) == [Idle EXCEPT !.role = t.role, !.misses = t.misses]

\* The branch "if signals is None" of the loops: the tick ends without
\* signals.  misses counts the ticks in a row that ended so while
\* last_position was 'long' (the programs keep no such count).
NoSignals(t) ==
    EnterWait([t EXCEPT !.misses = IF last_position # "long" THEN 0
                                   ELSE IF @ < MaxMisses THEN @ + 1 ELSE @])

Init ==
    /\ bot \in Bots
    /\ is_configured \in BOOLEAN
    /\ has_base_url = (bot # "app")
    /\ start_error = FALSE
    /\ data = <<>>
    /\ signals = {}
    /\ config = DefaultConfig
    /\ current_sol_balance = 0
    /\ current_usdt_balance = 0
    /\ last_signals_price = 0
    /\ daily_starting_balance = 0
    /\ is_running = FALSE
    /\ last_position = "none"
    /\ last_trade_time = 0
    /\ trade_history = <<>>
    /\ last_buy_price = 0
    /\ rsi_cycle_complete = TRUE
    /\ last_rsi_value = 50
    /\ entry_price = 0
    /\ highest_price = 0
    /\ th = [s \in Slots |-> Idle]

\* --------------------------------------------------------- HTTP handlers
\* a start_bot that does not look at config.is_configured
start_botUnchecked ==
    /\ ~is_running
    /\ \E s \in Slots :
        /\ th[s].pc = "free"
        /\ \A r \in Slots : r < s => th[r].pc # "free"
        /\ th' = [th EXCEPT ![s] = NewLoop]
    /\ is_running' = TRUE
    /\ UNCHANGED <<env, posv, auxv>>

\* POST /api/start_bot: an error reply when the bot is running already (no
\* step) or the credentials are missing, else is_running is set and the
\* loop thread started
start_bot ==
    /\ ~is_running
    /\ IF ~is_configured
       THEN /\ start_error' = TRUE
            /\ UNCHANGED <<is_running, th>>
       ELSE /\ \E s \in Slots :
                 /\ th[s].pc = "free"
                 /\ \A r \in Slots : r < s => th[r].pc # "free"
                 /\ th' = [th EXCEPT ![s] = NewLoop]
            /\ is_running' = TRUE
            /\ UNCHANGED start_error
    /\ UNCHANGED <<cfg, posv, auxv>>

\* POST /api/stop_bot
stop_bot ==
    /\ is_running
    /\ is_running' = FALSE
    /\ UNCHANGED <<env, posv, auxv, th>>

\* POST /api/force_stop (simple_bot.py only)
force_stop ==
    /\ bot = "simple"
    /\ is_running' = FALSE
    /\ UNCHANGED <<env, posv, auxv, th>>

\* ------------------------------------------------------ the trading loop
\* The head of the while loop: leave when is_running is False, else start a
\* tick by requesting the candles (get_klines / get_klines_simple).  app.py
\* first calls check_risk_limits, which can trip only once balances were
\* read from the exchange (limit): the loop then clears is_running and ends.
LoopTop(s) ==
    /\ th[s].role = "loop"
    /\ th[s].pc = "top"
    /\ IF ~is_running
       THEN /\ th' = [th EXCEPT ![s] = Idle]
            /\ UNCHANGED is_running
       ELSE \E limit \in BOOLEAN :
              /\ limit => bot = "app" /\ has_base_url
              /\ IF limit
                 THEN /\ is_running' = FALSE
                      /\ th' = [th EXCEPT ![s] = Idle]
                 ELSE /\ th' = [th EXCEPT ![s] =
                                  [ClearCall(@) EXCEPT !.pc = "klines",
                                                       !.req = make_api_request(FALSE)]]
                      /\ UNCHANGED is_running
    /\ UNCHANGED <<env, posv, auxv>>

\* One time.sleep(1) of the wait returns (app.py: one second of the single
\* time.sleep(config.check_interval) passes).
WaitStep(s) ==
    /\ th[s].pc = "wait"
    /\ th' = [th EXCEPT ![s] =
                IF th[s].wleft = 0 \/ (bot # "app" /\ ~is_running)
                THEN [ClearCall(@) EXCEPT !.pc = "top"]
                ELSE [ClearCall(@) EXCEPT !.pc = "wait", !.wleft = th[s].wleft - 1]]
    /\ UNCHANGED <<env, is_running, posv, auxv>>

\* ------------------------------------------------------------- signals
\* a consensus that needs all three indicators
SimpleConsensusUnanimous(st, macd, rsi) ==
    IF st = 1 /\ macd = 1 /\ rsi = 1 THEN "BUY"
    ELSE IF st = -1 /\ macd = -1 /\ rsi = -1 THEN "SELL"
    ELSE "NEUTRAL"

\* simple_bot.py get_trading_signals: 2-of-3 vote over the three indicators
SimpleConsensus(st, macd, rsi) ==
    LET buy_votes == Cardinality({i \in 1..3 : <<st, macd, rsi>>[i] = 1})
        sell_votes == Cardinality({i \in 1..3 : <<st, macd, rsi>>[i] = -1})
    IN IF buy_votes >= 2 THEN "BUY"
       ELSE IF sell_votes >= 2 THEN "SELL"
       ELSE "NEUTRAL"

\* solana_bot.py calculate_rsi: the signal, times two (2 strong buy, -2 strong
\* sell, 1 weak buy, -1 weak sell, 0 neutral), from the last two RSI values
calculate_rsi(prev_rsi, current_rsi) ==
    IF current_rsi <= rsi_oversold /\ prev_rsi > rsi_oversold THEN 2
    ELSE IF current_rsi >= rsi_overbought /\ prev_rsi < rsi_overbought THEN -2
    ELSE IF current_rsi < rsi_oversold THEN 1
    ELSE IF current_rsi > rsi_overbought THEN -1
    ELSE 0

\* solana_bot.py get_trading_signals: rsi_cycle_complete after the cycle
\* tracking of this call
CycleAfter(current_rsi) ==
    IF ~require_rsi_cycle THEN rsi_cycle_complete
    ELSE IF last_position = "long"
         THEN (last_rsi_value > rsi_overbought /\ current_rsi < rsi_oversold)
              \/ rsi_cycle_complete
         ELSE TRUE

\* solana_bot.py get_trading_signals: signals['profit_target_reached']
ProfitTargetReached(price) ==
    /\ last_position = "long"
    /\ last_buy_price # 0
    /\ (price - last_buy_price) * 100 >= profit_target_percent * last_buy_price

\* solana_bot.py get_trading_signals: signals['consensus']
SolanaConsensus(rsi_signal, cycle, price) ==
    IF rsi_signal = 2 /\ (cycle \/ ~require_rsi_cycle) THEN "BUY"
    ELSE IF ProfitTargetReached(price) THEN "PROFIT_SELL"
    ELSE IF rsi_signal = -2 THEN "RSI_SELL"
    ELSE IF rsi_signal = 1 /\ (cycle \/ ~require_rsi_cycle) THEN "WEAK_BUY"
    ELSE IF rsi_signal = -1 THEN "WEAK_SELL"
    ELSE "NEUTRAL"

Abs(x) == IF x < 0 THEN -x ELSE x
Min(a, b) == IF a <= b THEN a ELSE b

\* an action that asks no minimum of the trend strength
AppActionAnyTrend(rsi, macd, vol, trend) ==
    LET strong == vol >= min_volume_multiplier
        buy_signals == (IF macd >= 1 /\ strong /\ trend > 0 THEN 2 ELSE 0)
                       + (IF rsi < 70 /\ trend > 0 THEN 1 ELSE 0)
        sell_signals == (IF macd <= -1 /\ strong /\ trend < 0 THEN 2 ELSE 0)
                        + (IF rsi > 30 /\ trend < 0 THEN 1 ELSE 0)
    IN IF buy_signals >= 2 THEN "BUY"
       ELSE IF sell_signals >= 2 THEN "SELL"
       ELSE "HOLD"

\* app.py get_aggressive_signals: signals['action'] from the indicators
AppAction(rsi, macd, vol, trend) ==
    LET strong == vol >= min_volume_multiplier /\ Abs(trend) >= trend_strength_min
        buy_signals == (IF macd >= 1 /\ strong /\ trend > 0 THEN 2 ELSE 0)
                       + (IF rsi < 70 /\ trend > 0 THEN 1 ELSE 0)
        sell_signals == (IF macd <= -1 /\ strong /\ trend < 0 THEN 2 ELSE 0)
                        + (IF rsi > 30 /\ trend < 0 THEN 1 ELSE 0)
    IN IF buy_signals >= 2 THEN "BUY"
       ELSE IF sell_signals >= 2 THEN "SELL"
       ELSE "HOLD"

\* app.py: config.base_trade_amount * signals['trade_multiplier'], the
\* multiplier in thousandths
TradeAmount(action, macd, vol, trend) ==
    LET momentum == Min(2000, (Abs(macd) * 1000 + vol * 100 + Abs(trend) * 10) \div 3)
        multiplier == IF action = "HOLD" THEN 1000 ELSE Min(risk_multiplier, momentum)
    IN (base_trade_amount * multiplier) \div 1000

\* The candles request returns.  get_klines gives None when the request
\* failed, when is_running went False meanwhile, or when the data is too
\* short ("short"); else the indicators are computed (app.py then answers
\* its basic signals, here "NODATA": action 'HOLD', multiplier 1.0, which
\* the loop handles like any other signals).  simple_bot and
\* solana_bot then ask for the balances (the loop's display); app.py asks
\* for the price first (get_current_sol_price: one request stands for its
\* up to three ticker endpoints tried in turn).
KlinesResp(s) ==
    /\ th[s].pc = "klines"
    /\ \E reply \in {"error", "short", "data"} :
        /\ reply # "error" => Answered(s)
        /\ LET got == reply = "data" /\ is_running IN
           CASE bot = "simple" ->
                /\ IF ~got
                   THEN th' = [th EXCEPT ![s] = NoSignals(@)]
                   ELSE \E st \in {-1, 0, 1}, macd \in {-1, 0, 1}, rsi \in {-1, 0, 1} :
                          th' = [th EXCEPT ![s] =
                                   [@ EXCEPT !.sig = SimpleConsensus(st, macd, rsi),
                                             !.votes = <<st, macd, rsi>>,
                                             !.misses = 0,
                                             !.pc = "bal",
                                             !.req = make_api_request(TRUE)]]
                /\ UNCHANGED rsiv
             [] bot = "solana" ->
                IF ~got
                THEN /\ th' = [th EXCEPT ![s] = NoSignals(@)]
                     /\ UNCHANGED rsiv
                ELSE \E prev \in RsiValues, cur \in RsiValues, p \in Prices :
                       /\ rsi_cycle_complete' = CycleAfter(cur)
                       /\ last_rsi_value' = IF require_rsi_cycle THEN cur
                                            ELSE last_rsi_value
                       /\ th' = [th EXCEPT ![s] =
                                   [@ EXCEPT !.sig = SolanaConsensus(
                                                 calculate_rsi(prev, cur),
                                                 CycleAfter(cur), p),
                                             !.sprice = p,
                                             !.votes = <<prev, cur>>,
                                             !.misses = 0,
                                             !.pc = "bal",
                                             !.req = make_api_request(TRUE)]]
             [] bot = "app" ->
                /\ \E rsi \in RsiValues, macd \in MacdValues,
                      vol \in VolumeValues, trend \in TrendValues :
                     LET action == IF got THEN AppAction(rsi, macd, vol, trend)
                                   ELSE "NODATA"
                         amount == IF got THEN TradeAmount(action, macd, vol, trend)
                                   ELSE base_trade_amount
                     IN th' = [th EXCEPT ![s] =
                                 [@ EXCEPT !.sig = action,
                                           !.amount = amount,
                                           !.trend = IF got THEN trend ELSE 0,
                                           !.pc = "sigprice",
                                           !.req = make_api_request(FALSE)]]
                /\ UNCHANGED rsiv
    /\ UNCHANGED <<env, is_running, posv, last_buy_price, entry_price, highest_price>>

\* app.py get_aggressive_signals: get_current_sol_price returns.  None makes
\* the signals None: the loop sleeps and continues.  Else the loop stores
\* the signals and asks for the balances.
SigPriceResp(s) ==
    /\ th[s].pc = "sigprice"
    /\ \E reply \in {0} \cup Prices :
        /\ reply # 0 => Answered(s)
        /\ th' = [th EXCEPT ![s] =
                    IF reply = 0 THEN NoSignals(@)
                    ELSE [@ EXCEPT !.sprice = reply, !.misses = 0, !.trend = 0,
                                   !.pc = "bal",
                                   !.req = make_api_request(TRUE)]]
    /\ UNCHANGED <<env, is_running, posv, auxv>>

\* entering execute_buy_order / execute_sell_order
Call(t, side, why, amount) ==
    [t EXCEPT !.pc = "x_enter", !.req = "none", !.side = side, !.why = why,
              !.amount = amount, !.sprice = IF bot = "app" THEN @ ELSE 0,
              !.sig = IF bot = "app" THEN "none" ELSE @, !.votes = <<>>]

\* simple_bot.py trading_loop: the trading logic after the balances
SimpleDecide(t) ==
    IF t.sig = "BUY" /\ last_position # "long" THEN Call(t, "buy", "signal", 0)
    ELSE IF t.sig = "SELL" /\ last_position # "short" THEN Call(t, "sell", "signal", 0)
    ELSE EnterWait(t)

\* solana_bot.py trading_loop: the trading logic after the balances
SolanaDecide(t) ==
    IF t.sig = "BUY" /\ last_position # "long" THEN Call(t, "buy", "signal", 0)
    ELSE IF t.sig = "PROFIT_SELL" /\ last_position = "long"
         THEN Call(t, "sell", "signal", 0)
    ELSE IF t.sig = "RSI_SELL" /\ last_position = "long"
              /\ last_buy_price # 0
              /\ ~((t.sprice - last_buy_price) * 100 < 0)
         THEN Call(t, "sell", "signal", 0)
    ELSE EnterWait(t)

\* app.py check_trailing_stop: highest_price_since_entry after the call
TrailHighest(current_price) ==
    IF last_position = "long" /\ entry_price # 0 /\ highest_price # 0
       /\ current_price > highest_price
    THEN current_price ELSE highest_price

\* app.py check_trailing_stop: its return value
check_trailing_stop(current_price) ==
    /\ last_position = "long" /\ entry_price # 0 /\ highest_price # 0
    /\ TrailHighest(current_price) > 0
    /\ (TrailHighest(current_price) - current_price) * 100
         >= trailing_stop * TrailHighest(current_price)

\* app.py aggressive_trading_loop after the balances: trailing stop, then
\* the position time limit (elapsed: more than max_position_time has passed
\* since last_trade_time), then the signal
AppDecide(t, elapsed) ==
    IF check_trailing_stop(t.sprice)
    THEN IF last_position = "long" THEN Call(t, "sell", "trail", base_trade_amount)
         ELSE [t EXCEPT !.pc = "top", !.req = "none"]
    ELSE IF last_trade_time # 0 /\ last_position # "none" /\ elapsed
    THEN IF last_position = "long" THEN Call(t, "sell", "time", base_trade_amount)
         ELSE Call(t, "buy", "time", base_trade_amount)
    ELSE IF t.sig = "BUY" /\ last_position = "none"
    THEN Call(t, "buy", "signal", t.amount)
    ELSE IF t.sig = "SELL" /\ last_position = "none"
    THEN Call(t, "sell", "signal", t.amount)
    ELSE EnterWait(t)

\* The loop's get_current_balances returns.  simple_bot and solana_bot
\* leave the while loop (break) when is_running went False; app.py has no
\* such test.  Then the trading logic runs.
BalResp(s) ==
    /\ th[s].pc = "bal"
    /\ CASE bot = "simple" ->
            /\ th' = [th EXCEPT ![s] = IF ~is_running THEN Idle ELSE SimpleDecide(@)]
            /\ UNCHANGED highest_price
         [] bot = "solana" ->
            /\ th' = [th EXCEPT ![s] = IF ~is_running THEN Idle ELSE SolanaDecide(@)]
            /\ UNCHANGED highest_price
         [] bot = "app" ->
            /\ \E elapsed \in BOOLEAN :
                 th' = [th EXCEPT ![s] = AppDecide(@, elapsed)]
            /\ highest_price' = TrailHighest(th[s].sprice)
    /\ UNCHANGED <<env, is_running, posv, last_buy_price, rsiv, entry_price>>

\* an exception that nothing catches: the thread ends
LoopExceptionUncaught(s) ==
    /\ th[s].role = "loop"
    /\ th[s].pc \in {"klines", "sigprice", "bal"}
    /\ th' = [th EXCEPT ![s] = Idle]
    /\ UNCHANGED <<env, is_running, posv, auxv>>

\* The body of the while loop raises an exception between two of its
\* calls: "except Exception as e" prints it and runs the same wait as the
\* end of a tick (res "raised": the handler ran).
LoopException(s) ==
    /\ th[s].role = "loop"
    /\ th[s].pc \in {"klines", "sigprice", "bal"}
    /\ th' = [th EXCEPT ![s] = EnterWait([ClearCall(@) EXCEPT !.res = "raised"])]
    /\ UNCHANGED <<env, is_running, posv, auxv>>

\* --------------------------------------------------- return to the caller
\* execute_buy_order / execute_sell_order returns ok to its caller, which
\* runs on to its next blocking call.  hist is trade_history as the
\* executor leaves it.  The trading loops update the position only in the
\* branch of a truthy result; app.py's time-limit exit ignores the result.
PositionAfterAlways(t, ok) == IF t.side = "buy" THEN "long" ELSE "short"
\* last_position after the branch "if execute_..._order(): last_position = ..."
PositionAfter(t, ok) ==
    IF ok THEN (IF t.side = "buy" THEN "long" ELSE "short") ELSE last_position

Finish(s, t, ok, hist) ==
    LET r == [t EXCEPT !.res = IF ok THEN "ok" ELSE "fail", !.req = "none"]
    IN
    IF t.role = "manual"
    THEN /\ th' = [th EXCEPT ![s] = Idle]
         /\ trade_history' = hist
         /\ UNCHANGED <<last_position, last_trade_time, entry_price, highest_price>>
    ELSE IF bot = "app"
    THEN CASE t.why = "trail" ->
              /\ last_position' = IF ok THEN "none" ELSE last_position
              /\ entry_price' = IF ok THEN 0 ELSE entry_price
              /\ highest_price' = IF ok THEN 0 ELSE highest_price
              /\ trade_history' = hist
              /\ th' = [th EXCEPT ![s] = [EnterWait(r) EXCEPT !.pc = "top", !.wleft = 0]]
              /\ UNCHANGED last_trade_time
           [] t.why = "time" ->
              /\ last_position' = "none"
              /\ trade_history' = hist
              /\ th' = [th EXCEPT ![s] = [EnterWait(r) EXCEPT !.pc = "top", !.wleft = 0]]
              /\ UNCHANGED <<last_trade_time, entry_price, highest_price>>
           [] OTHER ->
              /\ last_position' = PositionAfter(t, ok)
              /\ last_trade_time' = IF ok THEN last_trade_time + 1 ELSE last_trade_time
              /\ entry_price' = IF ok THEN t.sprice ELSE entry_price
              /\ highest_price' = IF ok THEN t.sprice ELSE highest_price
              /\ trade_history' = hist
              /\ th' = [th EXCEPT ![s] = EnterWait(r)]
    ELSE /\ last_position' = PositionAfter(t, ok)
         /\ last_trade_time' = IF ok THEN last_trade_time + 1 ELSE last_trade_time
         /\ trade_history' = IF ok THEN Append(hist, IF bot = "simple"
                                                     THEN (IF t.side = "buy" THEN "BUY" ELSE "SELL")
                                                     ELSE t.sig)
                             ELSE hist
         /\ th' = [th EXCEPT ![s] = EnterWait(r)]
         /\ UNCHANGED <<entry_price, highest_price>>

\* ---------------------------------------------------------- the executor
\* execute_buy_order / execute_sell_order starts: return False when
\* is_running is False, else ask for the balances.
XEnter(s) ==
    /\ th[s].pc = "x_enter"
    /\ IF ~is_running
       THEN Finish(s, th[s], FALSE, trade_history)
       ELSE /\ th' = [th EXCEPT ![s] = [@ EXCEPT !.pc = "x_bal",
                                                 !.req = make_api_request(TRUE)]]
            /\ UNCHANGED <<posv, entry_price, highest_price>>
    /\ UNCHANGED <<env, is_running, last_buy_price, rsiv>>

\* round(x, 4) of a quantity x given in 10^-5 SOL
Round4(q) == ((q + 5) \div 10) * 10
\* round(n / d, 4) of a quantity n / d in 10^-5 SOL
Round4Ratio(n, d) == ((2 * n + 10 * d) \div (20 * d)) * 10
\* app.py execute_sell_order: math.floor(sol_balance * 10) / 10
FloorTenth(q) == (q \div 10000) * 10000

\* The checks made on the balance before the price is asked for: TRUE when
\* the call goes on.  b is the USDT balance of a buy, the SOL balance of a
\* sell (0 when get_current_balances failed).
BalanceOk(t, b) ==
    IF t.role = "manual" /\ bot = "solana" THEN TRUE
    ELSE CASE bot = "simple" /\ t.side = "buy" -> b > 0
           [] bot = "simple" /\ t.side = "sell" -> b > 0 /\ ~(b < MinLotTenth)
           [] bot = "solana" /\ t.side = "buy" -> TRUE
           [] bot = "solana" /\ t.side = "sell" -> ~(Round4(b) < MinLotHundredth)
           [] bot = "app" /\ t.side = "buy" -> TRUE
           [] bot = "app" /\ t.side = "sell" ->
                ~(b * 10 < t.amount * 9) /\ ~(FloorTenth(b) < MinLotTenth)

\* the quantity a sell submits, from the SOL balance b
SellQty(b) == IF bot = "app" THEN FloorTenth(b) ELSE Round4(b)

\* a sizing that never compares the cost with the balance
SolanaAffordableAlways(fixed, amount, usdt, p) == TRUE

\* solana_bot.py: the sizing of a buy; pct is the percentage, amount the
\* fixed SOL amount, usdt the balance, p the price.  TRUE when affordable.
SolanaAffordable(fixed, amount, usdt, p) ==
    IF fixed THEN ~(usdt * SolUnit < amount * p) ELSE TRUE

SolanaBuyQty(fixed, amount, pct, usdt, p) ==
    IF fixed THEN Round4(amount)
    ELSE Round4Ratio(usdt * pct * SolUnit, 100 * p)

\* The checks made once the price p is known: TRUE when an order is sent.
PriceOk(t, p, trade_type) ==
    IF t.role = "manual" /\ bot = "solana"
    THEN IF t.side = "sell" THEN TRUE
         ELSE SolanaAffordable(t.amount # 0, t.amount, t.bal, p)
    ELSE CASE bot = "simple" /\ t.side = "buy" ->
                /\ ~(t.bal * trade_percentage * SolUnit < MinLotTenth * 100 * p)
                /\ ~(t.bal * trade_percentage < MinNotional * 100)
           [] bot = "simple" /\ t.side = "sell" ->
                ~(t.bal * p < MinNotional * SolUnit)
           [] bot = "solana" /\ t.side = "buy" ->
                /\ SolanaAffordable(trade_type = "fixed", sol_trade_amount, t.bal, p)
                /\ ~(SolanaBuyQty(trade_type = "fixed", sol_trade_amount,
                                  trade_percentage, t.bal, p) < MinLotHundredth)
           [] bot = "solana" /\ t.side = "sell" -> TRUE
           [] bot = "app" /\ t.side = "buy" ->
                /\ ~(t.bal * SolUnit < t.amount * p)
                /\ ~(Round4(t.amount) < MinLotTenth)
           [] bot = "app" /\ t.side = "sell" -> TRUE

\* the quantity the order carries
OrderQty(t, p, trade_type) ==
    IF t.side = "sell" THEN SellQty(t.bal)
    ELSE CASE bot = "simple" ->
                Round4Ratio(t.bal * trade_percentage * SolUnit, 100 * p)
           [] bot = "solana" ->
                IF t.role = "manual"
                THEN SolanaBuyQty(t.amount # 0, t.amount, ManualPercentage, t.bal, p)
                ELSE SolanaBuyQty(trade_type = "fixed", sol_trade_amount,
                                  trade_percentage, t.bal, p)
           [] bot = "app" -> Round4(t.amount)

\* solana_bot.py's limit fallback of a buy, round(current_price * 1.005, 2),
\* in cents
BuyLimitPrice(p) == (p * 1005 + 5) \div 10

\* the balance an order is measured against afterwards: the USDT balance
\* execute_buy_order of solana_bot.py fetched (no other local outlives the
\* price step)
KeptBal(t) ==
    IF bot = "solana" /\ t.role = "loop" /\ t.side = "buy" THEN t.bal ELSE 0

FirstTypeLimit == "limit"
\* the order types in the order the code tries them
FirstType == IF bot = "simple" THEN "limit" ELSE "market"
SecondType == IF bot = "simple" THEN "market" ELSE "limit"

\* the thread after calling make_api_request for an order of type ty, at
\* position pc; sent lists the order requests the call has made
SendOrder(t, pc, ty) ==
    [t EXCEPT !.pc = pc, !.req = make_api_request(FALSE), !.sent = Append(@, ty)]

\* the exchange accepts an order only while the history bound leaves room
Room == Len(trade_history) + Cardinality({r \in Slots : th[r].pc = "x_refresh"})
            < MaxTrades

\* The executor's get_current_balances returns.
XBalResp(s) ==
    /\ th[s].pc = "x_bal"
    /\ \E ok \in BOOLEAN :
       \E sol \in (IF ok THEN SolBalances ELSE {0}),
          usdt \in (IF ok THEN UsdtBalances ELSE {0}) :
        /\ ok => Answered(s)
        /\ LET b == IF th[s].side = "buy" THEN usdt ELSE sol
               t == [th[s] EXCEPT !.bal = b]
           IN IF BalanceOk(t, b)
              THEN /\ th' = [th EXCEPT ![s] = [t EXCEPT !.pc = "x_price",
                                                       !.req = make_api_request(FALSE)]]
                   /\ UNCHANGED <<posv, entry_price, highest_price>>
              ELSE Finish(s, t, FALSE, trade_history)
    /\ UNCHANGED <<env, is_running, last_buy_price, rsiv>>

\* a ticker step that goes on with the price 100 when it got none
XPriceRespDefault(s) ==
    /\ th[s].pc = "x_price"
    /\ \E p \in {0} \cup Prices, trade_type \in TradeTypes :
        /\ p # 0 => Answered(s)
        /\ LET q == IF p = 0 THEN 100 ELSE p IN
           IF PriceOk(th[s], q, trade_type)
           THEN /\ th' = [th EXCEPT ![s] =
                            SendOrder([th[s] EXCEPT !.price = q, !.bal = KeptBal(th[s]),
                                                    !.qty = OrderQty(th[s], q, trade_type)],
                                      "x_ord1", FirstType)]
                /\ UNCHANGED <<posv, entry_price, highest_price>>
           ELSE Finish(s, th[s], FALSE, trade_history)
    /\ UNCHANGED <<env, is_running, last_buy_price, rsiv>>

\* The ticker request returns: 0 stands for an error or a reply with no
\* price field.  trade_type is config.trade_type as solana_bot.py's
\* execute_buy_order reads it.
XPriceResp(s) ==
    /\ th[s].pc = "x_price"
    /\ \E p \in {0} \cup Prices, trade_type \in TradeTypes :
        /\ p # 0 => Answered(s)
        /\ IF p # 0 /\ PriceOk(th[s], p, trade_type)
           THEN /\ th' = [th EXCEPT ![s] =
                            SendOrder([th[s] EXCEPT !.price = p, !.bal = KeptBal(th[s]),
                                                    !.qty = OrderQty(th[s], p, trade_type)],
                                      "x_ord1", FirstType)]
                /\ UNCHANGED <<posv, entry_price, highest_price>>
           ELSE Finish(s, th[s], FALSE, trade_history)
    /\ UNCHANGED <<env, is_running, last_buy_price, rsiv>>

\* An order was accepted.  simple_bot returns True at once.  solana_bot
\* records the buy price (clears it after a sell) and resets the RSI cycle,
\* app.py goes on: both sleep one second and refresh the balances.
OrderOk(s, t) ==
    CASE bot = "simple" ->
         /\ Finish(s, [t EXCEPT !.acc = TRUE], TRUE, trade_history)
         /\ UNCHANGED <<last_buy_price, rsiv>>
      [] bot = "solana" ->
         /\ last_buy_price' = IF t.side = "buy" THEN t.price ELSE 0
         /\ rsi_cycle_complete' = IF t.side = "buy" /\ require_rsi_cycle THEN FALSE
                                  ELSE rsi_cycle_complete
         /\ th' = [th EXCEPT ![s] = [t EXCEPT !.acc = TRUE, !.pc = "x_refresh",
                                              !.req = make_api_request(TRUE)]]
         /\ UNCHANGED <<posv, last_rsi_value, entry_price, highest_price>>
      [] bot = "app" ->
         /\ th' = [th EXCEPT ![s] = [t EXCEPT !.acc = TRUE, !.pc = "x_refresh",
                                              !.req = make_api_request(TRUE)]]
         /\ UNCHANGED <<posv, last_buy_price, rsiv, entry_price, highest_price>>

\* The first order request returns.  The executors return False when
\* is_running is False by then, whatever the reply; the manual handlers of
\* solana_bot have no such test.  On an error the second order is sent.
XOrd1Resp(s) ==
    /\ th[s].pc = "x_ord1"
    /\ \E ok \in BOOLEAN :
        /\ ok => Answered(s) /\ Room
        /\ LET t == [th[s] EXCEPT !.acc = ok] IN
           IF ~is_running /\ ~(t.role = "manual" /\ bot = "solana")
           THEN /\ Finish(s, t, FALSE, trade_history)
                /\ UNCHANGED <<last_buy_price, rsiv>>
           ELSE IF ok THEN OrderOk(s, t)
           ELSE /\ th' = [th EXCEPT ![s] = SendOrder(t, "x_ord2", SecondType)]
                /\ UNCHANGED <<posv, auxv>>
    /\ UNCHANGED <<env, is_running>>

XOrd2RespRetry(s) ==
    /\ th[s].pc = "x_ord2"
    /\ \E ok \in BOOLEAN :
        /\ ok => Answered(s) /\ Room
        /\ IF ok THEN OrderOk(s, th[s])
           ELSE /\ th' = [th EXCEPT ![s] = SendOrder(th[s], "x_ord2", FirstType)]
                /\ UNCHANGED <<posv, auxv>>
    /\ UNCHANGED <<env, is_running>>

\* The second order request returns.
XOrd2Resp(s) ==
    /\ th[s].pc = "x_ord2"
    /\ \E ok \in BOOLEAN :
        /\ ok => Answered(s) /\ Room
        /\ IF ok THEN OrderOk(s, th[s])
           ELSE /\ Finish(s, th[s], FALSE, trade_history)
                /\ UNCHANGED <<last_buy_price, rsiv>>
    /\ UNCHANGED <<env, is_running>>

\* time.sleep(1) and the balance refresh after an accepted order return.
\* solana_bot's executor returns its tuple to the loop; its manual handlers
\* append their own trade record.  app.py's executor appends the record.
XRefreshResp(s) ==
    /\ th[s].pc = "x_refresh"
    /\ LET t == th[s]
           label == IF bot = "app"
                    THEN (IF t.side = "buy" THEN "AGGRESSIVE BUY" ELSE "AGGRESSIVE SELL")
                    ELSE (IF t.side = "buy" THEN "MANUAL BUY" ELSE "MANUAL SELL")
       IN IF bot = "app" \/ t.role = "manual"
          THEN Finish(s, t, TRUE, Append(trade_history, label))
          ELSE Finish(s, t, TRUE, trade_history)
    /\ UNCHANGED <<env, is_running, last_buy_price, rsiv>>

\* ------------------------------------------------------- manual handlers
\* the lowest free slot
FreeSlot(s) == th[s].pc = "free" /\ \A r \in Slots : r < s => th[r].pc # "free"

\* POST /api/manual_buy, /api/manual_sell.  app.py calls the executor with
\* the requested amount; solana_bot.py runs its own copy of the order code,
\* starting with get_current_balances (amount 0: the percentage form).
Manual ==
    /\ bot \in {"solana", "app"}
    /\ \E s \in Slots, side \in {"buy", "sell"}, amount \in {0} \cup ManualAmounts :
        /\ FreeSlot(s)
        /\ bot = "app" => amount # 0
        /\ bot = "solana" /\ side = "sell" => amount = 0
        /\ th' = [th EXCEPT ![s] =
                    IF bot = "app"
                    THEN Call([Idle EXCEPT !.role = "manual"], side, "manual", amount)
                    ELSE [Idle EXCEPT !.role = "manual", !.side = side,
                                      !.why = "manual", !.amount = amount,
                                      !.pc = "x_bal",
                                      !.req = make_api_request(TRUE)]]
    /\ UNCHANGED <<env, is_running, posv, auxv>>

Next ==
    \/ start_bot
    \/ stop_bot
    \/ force_stop
    \/ \E s \in Slots : LoopTop(s)
    \/ \E s \in Slots : WaitStep(s)
    \/ \E s \in Slots : KlinesResp(s)
    \/ \E s \in Slots : SigPriceResp(s)
    \/ \E s \in Slots : BalResp(s)
    \/ \E s \in Slots : LoopException(s)
    \/ \E s \in Slots : XEnter(s)
    \/ \E s \in Slots : XBalResp(s)
    \/ \E s \in Slots : XPriceResp(s)
    \/ \E s \in Slots : XOrd1Resp(s)
    \/ \E s \in Slots : XOrd2Resp(s)
    \/ \E s \in Slots : XRefreshResp(s)
    \/ Manual

Spec == Init /\ [][Next]_vars

\* app.py with config.base_url defined (app.py's Config lacks it: there
\* every request is refused and no order can be sent), so that its order
\* code runs.  simple_bot.py stands beside it for the properties that
\* compare the order code of the programs; solana_bot.py's behaviours are
\* those of Spec.
InitUrl ==
    /\ bot \in {"simple", "app"}
    /\ is_configured \in BOOLEAN
    /\ has_base_url = TRUE
    /\ start_error = FALSE
    /\ data = <<>>
    /\ signals = {}
    /\ config = DefaultConfig
    /\ current_sol_balance = 0
    /\ current_usdt_balance = 0
    /\ last_signals_price = 0
    /\ daily_starting_balance = 0
    /\ is_running = FALSE
    /\ last_position = "none"
    /\ last_trade_time = 0
    /\ trade_history = <<>>
    /\ last_buy_price = 0
    /\ rsi_cycle_complete = TRUE
    /\ last_rsi_value = 50
    /\ entry_price = 0
    /\ highest_price = 0
    /\ th = [s \in Slots |-> Idle]

SpecUrl == InitUrl /\ [][Next]_vars

\* ------------------------------------------- simple_bot.py's indicators
\* defaults of the indicators' parameters
st_period == 10
st_multiplier == 3
macd_slow == 26
rsi_simple_period == 14

\* seq[-k:]
LastK(seq, k) ==
    IF Len(seq) <= k THEN seq ELSE SubSeq(seq, Len(seq) - k + 1, Len(seq))

RECURSIVE SumSeq(_)
SumSeq(seq) == IF seq = <<>> THEN 0 ELSE Head(seq) + SumSeq(Tail(seq))

Max3(a, b, c) ==
    IF a >= b /\ a >= c THEN a ELSE IF b >= c THEN b ELSE c

\* calculate_supertrend_simple: the comparisons of the close with the
\* bands (hl_avg +- multiplier * atr) are multiplied by 2 * period
calculate_supertrend_simple(d) ==
    LET w == LastK(d, st_period * 2)
        n == Len(w)
    IN IF n < st_period THEN 0
       ELSE LET tr_values == [i \in 1..(n - 1) |->
                                Max3(w[i + 1].high - w[i + 1].low,
                                     Abs(w[i + 1].high - w[i].close),
                                     Abs(w[i + 1].low - w[i].close))]
                tr_sum == SumSeq(LastK(tr_values, st_period))
                close2 == 2 * st_period * w[n].close
                mid2 == st_period * (w[n].high + w[n].low)
                width2 == 2 * st_multiplier * tr_sum
            IN IF close2 > mid2 + width2 THEN 1
               ELSE IF close2 < mid2 - width2 THEN -1
               ELSE 0

\* calculate_macd_simple: 0 for fewer than slow closes; else 1 or -1, the
\* sign of macd_line - signal_line, whose EMA arithmetic is left open here
calculate_macd_simple(d) == IF Len(d) < macd_slow THEN {0} ELSE {1, -1}

\* the gains (up = TRUE) or losses of the close-to-close changes
Changes(d, up) ==
    [i \in 1..(Len(d) - 1) |->
       LET change == d[i + 1].close - d[i].close
       IN IF up THEN (IF change > 0 THEN change ELSE 0)
          ELSE (IF change > 0 THEN 0 ELSE Abs(change))]

\* calculate_rsi_simple: rsi > 70 is 3 * avg_gain > 7 * avg_loss, rsi < 30
\* is 7 * avg_gain < 3 * avg_loss; the averages share the divisor period
calculate_rsi_simple(d) ==
    IF Len(d) <= rsi_simple_period THEN 0
    ELSE LET gain == SumSeq(LastK(Changes(d, TRUE), rsi_simple_period))
             loss == SumSeq(LastK(Changes(d, FALSE), rsi_simple_period))
         IN IF loss = 0 THEN (IF gain > 0 THEN 1 ELSE 0)
            ELSE IF 3 * gain > 7 * loss THEN -1
            ELSE IF 7 * gain < 3 * loss THEN 1
            ELSE 0

\* candle series: n candles of one shape
Shapes == {"flat", "rising", "falling", "jump", "drop"}
Candle(shape, i, n) ==
    CASE shape = "rising" -> [high |-> 100 + i, low |-> 100 + i, close |-> 100 + i]
      [] shape = "falling" -> [high |-> 100 - i, low |-> 100 - i, close |-> 100 - i]
      [] shape = "jump" /\ i = n -> [high |-> 110, low |-> 100, close |-> 110]
      [] shape = "drop" /\ i = n -> [high |-> 110, low |-> 100, close |-> 100]
      [] OTHER -> [high |-> 105, low |-> 105, close |-> 105]
Series(shape, n) == IF n = 0 THEN <<>> ELSE [i \in 1..n |-> Candle(shape, i, n)]
CandleSeries == {Series(shape, n) : shape \in Shapes, n \in 0..MaxCandles}

Computed(name) == \E v \in {-1, 0, 1} : <<name, v>> \in signals

\* get_trading_signals fills the signals dict, one indicator at a time
Supertrend ==
    /\ ~Computed("supertrend")
    /\ signals' = signals \cup {<<"supertrend", calculate_supertrend_simple(data)>>}
    /\ UNCHANGED <<bot, is_configured, has_base_url, start_error, data,
                   config, riskv, is_running, posv, auxv, th>>

Macd ==
    /\ ~Computed("macd")
    /\ \E v \in calculate_macd_simple(data) :
         signals' = signals \cup {<<"macd", v>>}
    /\ UNCHANGED <<bot, is_configured, has_base_url, start_error, data,
                   config, riskv, is_running, posv, auxv, th>>

Rsi ==
    /\ ~Computed("rsi")
    /\ signals' = signals \cup {<<"rsi", calculate_rsi_simple(data)>>}
    /\ UNCHANGED <<bot, is_configured, has_base_url, start_error, data,
                   config, riskv, is_running, posv, auxv, th>>

InitIndicators ==
    /\ bot = "simple"
    /\ is_configured = TRUE
    /\ has_base_url = TRUE
    /\ start_error = FALSE
    /\ data \in CandleSeries
    /\ signals = {}
    /\ config = DefaultConfig
    /\ current_sol_balance = 0
    /\ current_usdt_balance = 0
    /\ last_signals_price = 0
    /\ daily_starting_balance = 0
    /\ is_running = FALSE
    /\ last_position = "none"
    /\ last_trade_time = 0
    /\ trade_history = <<>>
    /\ last_buy_price = 0
    /\ rsi_cycle_complete = TRUE
    /\ last_rsi_value = 50
    /\ entry_price = 0
    /\ highest_price = 0
    /\ th = [s \in Slots |-> Idle]

NextIndicators == Supertrend \/ Macd \/ Rsi

SpecIndicators == InitIndicators /\ [][NextIndicators]_vars

\* ------------------------------------------- app.py's daily loss limit
\* config.max_daily_loss, in percent
max_daily_loss == 15

\* the USDT balances the exchange reports in this part
DailyUsdt == {85, 86, 100}

\* check_risk_limits' current_total, in 10^-5 USDT
current_total ==
    current_sol_balance * last_signals_price + current_usdt_balance * SolUnit

\* a check_risk_limits that stops only for a loss beyond the limit
check_risk_limitsStrict ==
    ~(/\ daily_starting_balance > 0
      /\ (current_total - daily_starting_balance) * 100
           < -max_daily_loss * daily_starting_balance)

\* check_risk_limits: False when daily_pnl_pct <= -config.max_daily_loss
check_risk_limits ==
    ~(/\ daily_starting_balance > 0
      /\ (current_total - daily_starting_balance) * 100
           <= -max_daily_loss * daily_starting_balance)

\* POST /api/start_bot, the thread being at the first statement of
\* aggressive_trading_loop
StartLoop ==
    /\ ~is_running
    /\ \E s \in Slots :
         /\ FreeSlot(s)
         /\ th' = [th EXCEPT ![s] = [NewLoop EXCEPT !.pc = "begin"]]
    /\ is_running' = TRUE
    /\ UNCHANGED <<bot, is_configured, has_base_url, start_error, data,
                   signals, config, riskv, posv, auxv>>

\* aggressive_trading_loop before its while loop: the day's starting
\* balance is taken from the balances and the price stored last
LoopBegin(s) ==
    /\ th[s].pc = "begin"
    /\ daily_starting_balance' = current_total
    /\ th' = [th EXCEPT ![s].pc = "top"]
    /\ UNCHANGED <<bot, is_configured, has_base_url, start_error, data,
                   signals, config, current_sol_balance,
                   current_usdt_balance, last_signals_price, is_running,
                   posv, auxv>>

\* The head of the while loop with check_risk_limits computed: the loop
\* ends when is_running is False; when check_risk_limits returns False it
\* clears is_running and ends (res keeps why the thread ended); else
\* check_risk_limits restarts the daily tracking on a new day and the tick
\* requests the candles.
RiskTop(s) ==
    /\ th[s].role = "loop"
    /\ th[s].pc = "top"
    /\ IF ~is_running
       THEN /\ th' = [th EXCEPT ![s] = Idle]
            /\ UNCHANGED <<is_running, daily_starting_balance>>
       ELSE IF ~check_risk_limits
       THEN /\ is_running' = FALSE
            /\ th' = [th EXCEPT ![s] = [Idle EXCEPT !.res = "risk_limit"]]
            /\ UNCHANGED daily_starting_balance
       ELSE /\ \E new_day \in BOOLEAN :
                 daily_starting_balance' =
                     IF new_day THEN current_total ELSE daily_starting_balance
            /\ th' = [th EXCEPT ![s] =
                        [ClearCall(@) EXCEPT !.pc = "klines",
                                             !.req = make_api_request(FALSE)]]
            /\ UNCHANGED is_running
    /\ UNCHANGED <<bot, is_configured, has_base_url, start_error, data,
                   signals, config, current_sol_balance,
                   current_usdt_balance, last_signals_price, posv, auxv>>

\* get_aggressive_signals returns: None (p = 0) ends the tick, else
\* last_signals is stored and get_current_balances called
RiskSignalsResp(s) ==
    /\ th[s].pc = "klines"
    /\ \E p \in {0} \cup Prices :
         /\ p # 0 => Answered(s)
         /\ IF p = 0
            THEN /\ th' = [th EXCEPT ![s] = EnterWait(@)]
                 /\ UNCHANGED last_signals_price
            ELSE /\ last_signals_price' = p
                 /\ th' = [th EXCEPT ![s] =
                             [@ EXCEPT !.pc = "bal",
                                       !.req = make_api_request(TRUE)]]
    /\ UNCHANGED <<bot, is_configured, has_base_url, start_error, data,
                   signals, config, current_sol_balance,
                   current_usdt_balance, daily_starting_balance, is_running,
                   posv, auxv>>

\* get_current_balances returns in the loop: a successful reply is stored;
\* the tick then places an order (order) or goes to its sleep
RiskBalResp(s) ==
    /\ th[s].pc = "bal"
    /\ \E ok \in BOOLEAN :
         /\ ok => Answered(s)
         /\ IF ok
            THEN \E sol \in {0} \cup SolBalances, usdt \in DailyUsdt :
                   /\ current_sol_balance' = sol
                   /\ current_usdt_balance' = usdt
            ELSE UNCHANGED <<current_sol_balance, current_usdt_balance>>
    /\ \E order \in BOOLEAN :
         th' = [th EXCEPT ![s] =
                  IF order THEN SendOrder(@, "x_ord1", FirstType)
                  ELSE EnterWait(@)]
    /\ UNCHANGED <<bot, is_configured, has_base_url, start_error, data,
                   signals, config, last_signals_price,
                   daily_starting_balance, is_running, posv, auxv>>

\* the order request returns and the tick goes to its sleep
RiskOrderResp(s) ==
    /\ th[s].pc = "x_ord1"
    /\ th' = [th EXCEPT ![s] = EnterWait(@)]
    /\ UNCHANGED <<env, is_running, posv, auxv>>

\* GET /api/status: get_current_balances stores the balances, whether the
\* bot runs or not
get_status ==
    /\ \E sol \in {0} \cup SolBalances, usdt \in DailyUsdt :
         /\ current_sol_balance' = sol
         /\ current_usdt_balance' = usdt
    /\ UNCHANGED <<bot, is_configured, has_base_url, start_error, data,
                   signals, config, last_signals_price,
                   daily_starting_balance, is_running, posv, auxv, th>>

InitRisk ==
    /\ bot = "app"
    /\ is_configured = TRUE
    /\ has_base_url = TRUE
    /\ start_error = FALSE
    /\ data = <<>>
    /\ signals = {}
    /\ config = DefaultConfig
    /\ current_sol_balance = 0
    /\ current_usdt_balance = 0
    /\ last_signals_price = 0
    /\ daily_starting_balance = 0
    /\ is_running = FALSE
    /\ last_position = "none"
    /\ last_trade_time = 0
    /\ trade_history = <<>>
    /\ last_buy_price = 0
    /\ rsi_cycle_complete = TRUE
    /\ last_rsi_value = 50
    /\ entry_price = 0
    /\ highest_price = 0
    /\ th = [s \in Slots |-> Idle]

NextRisk ==
    \/ StartLoop
    \/ stop_bot
    \/ get_status
    \/ \E s \in Slots : LoopBegin(s)
    \/ \E s \in Slots : RiskTop(s)
    \/ \E s \in Slots : RiskSignalsResp(s)
    \/ \E s \in Slots : RiskBalResp(s)
    \/ \E s \in Slots : RiskOrderResp(s)
    \/ \E s \in Slots : WaitStep(s)

SpecRisk == InitRisk /\ [][NextRisk]_vars

\* ---------------------------------------------------- update_settings
\* int(request.args.get(...)): a number, or ValueError (ok = FALSE) for a
\* text that is no integer
IntArgs(values) ==
    {[ok |-> TRUE, v |-> x] : x \in values} \cup {[ok |-> FALSE, v |-> 0]}

\* the query strings tried, argument by argument; float() reads 'nan' as
\* the float nan
Requests ==
    [trade_type : {"percentage", "fixed", "both"},
     trade_percentage : IntArgs({0, 1, trade_percentage, 100, 101}),
     sol_trade_amount : {Float(999), Float(1000), Float(sol_trade_amount), NaN},
     check_interval : IntArgs({59, 60, 900}),
     indicator_interval : {"5m", "15m", "2m"},
     rsi_period : {5, 14},
     rsi_oversold : {rsi_oversold, 41},
     rsi_overbought : {59, rsi_overbought},
     profit_target_percent : {Float(0), Float(10 * profit_target_percent)},
     require_rsi_cycle : BOOLEAN]

valid_intervals == {"1m", "5m", "15m", "30m", "1H", "4H", "1D"}

\* the request passes the int() conversions and every validation of the
\* handler, in the handler's order
Accepted(r) ==
    /\ r.trade_percentage.ok
    /\ r.check_interval.ok
    /\ bot = "solana" => r.trade_type \in TradeTypes
    /\ ~(r.trade_percentage.v < 1 \/ r.trade_percentage.v > 100)
    /\ bot = "solana" =>
         ~(\/ FloatLt(r.sol_trade_amount, Float(1000))
           \/ FloatLt(Float(1000 * SolUnit), r.sol_trade_amount))
    /\ ~(r.check_interval.v < 60)
    /\ r.indicator_interval \in valid_intervals
    /\ bot = "solana" =>
         /\ ~(r.rsi_period < 6 \/ r.rsi_period > 30)
         /\ ~(r.rsi_oversold < 10 \/ r.rsi_oversold > 40)
         /\ ~(r.rsi_overbought < 60 \/ r.rsi_overbought > 90)
         /\ ~(\/ FloatLt(r.profit_target_percent, Float(1))
              \/ FloatLt(Float(500), r.profit_target_percent))

\* the config after the assignments that follow the validations
Stored(r) ==
    IF bot = "simple"
    THEN [config EXCEPT !.trade_percentage = r.trade_percentage.v,
                        !.check_interval = r.check_interval.v,
                        !.indicator_interval = r.indicator_interval]
    ELSE [trade_type |-> r.trade_type,
          trade_percentage |-> r.trade_percentage.v,
          sol_trade_amount |-> r.sol_trade_amount,
          check_interval |-> r.check_interval.v,
          indicator_interval |-> r.indicator_interval,
          rsi_period |-> r.rsi_period,
          rsi_oversold |-> r.rsi_oversold,
          rsi_overbought |-> r.rsi_overbought,
          profit_target_percent |-> r.profit_target_percent,
          require_rsi_cycle |-> r.require_rsi_cycle]

\* POST /api/update_settings: an error reply leaves config as it is
update_settings ==
    /\ \E r \in Requests :
         config' = IF Accepted(r) THEN Stored(r) ELSE config
    /\ UNCHANGED <<bot, is_configured, has_base_url, start_error, data,
                   signals, riskv, is_running, posv, auxv, th>>

InitSettings ==
    /\ bot \in {"simple", "solana"}
    /\ is_configured = TRUE
    /\ has_base_url = TRUE
    /\ start_error = FALSE
    /\ data = <<>>
    /\ signals = {}
    /\ config = DefaultConfig
    /\ current_sol_balance = 0
    /\ current_usdt_balance = 0
    /\ last_signals_price = 0
    /\ daily_starting_balance = 0
    /\ is_running = FALSE
    /\ last_position = "none"
    /\ last_trade_time = 0
    /\ trade_history = <<>>
    /\ last_buy_price = 0
    /\ rsi_cycle_complete = TRUE
    /\ last_rsi_value = 50
    /\ entry_price = 0
    /\ highest_price = 0
    /\ th = [s \in Slots |-> Idle]

NextSettings == update_settings

SpecSettings == InitSettings /\ [][NextSettings]_vars

\* ------------------------------------------------------------ properties
\* positions inside execute_buy_order / execute_sell_order (and inside the
\* order code of solana_bot.py's manual handlers)
ExecPcs == {"x_enter", "x_bal", "x_price", "x_ord1", "x_ord2", "x_refresh"}

\* thread s has an order-placement request in flight
InFlight(s) == th[s].pc \in {"x_ord1", "x_ord2"} /\ th[s].req = "sent"

\* C1: in the trading loops of simple_bot.py and solana_bot.py, the step in
\* which execute_buy_order / execute_sell_order returns failure to the loop
\* leaves last_position, last_trade_time and trade_history as they were.
C1_FailedOrderKeepsPosition ==
    [][\A s \in Slots :
         (/\ bot \in {"simple", "solana"}
          /\ th[s].role = "loop"
          /\ th[s].pc \in ExecPcs
          /\ th'[s].pc \notin ExecPcs
          /\ th'[s].res = "fail")
         => UNCHANGED posv]_vars

\* a loop of simple_bot.py or solana_bot.py whose call just returned failure
\* after both order requests were sent and returned an error
C1_Witness ==
    \E s \in Slots :
        /\ bot \in {"simple", "solana"}
        /\ th[s].role = "loop"
        /\ th[s].res = "fail"
        /\ Len(th[s].sent) = 2
        /\ ~th[s].acc

C3_AcceptedOrderIsRecorded ==
    [][\A s \in Slots :
         (/\ bot \in {"simple", "solana"}
          /\ th[s].role = "loop"
          /\ th[s].pc \in ExecPcs
          /\ th'[s].pc \notin ExecPcs
          /\ th'[s].acc)
         => /\ last_position' = IF th[s].side = "buy" THEN "long" ELSE "short"
            /\ Len(trade_history') = Len(trade_history) + 1]_vars

\* C4: at most one trading-loop thread is executing a tick at any time.
C4_SingleLoopThread ==
    Cardinality({s \in Slots : /\ th[s].role = "loop"
                               /\ th[s].pc \in {"klines", "sigprice", "bal"} \cup ExecPcs})
        <= 1

\* C5: in each bot, a loop thread in its inter-tick wait that finds
\* is_running False when a one-second step ends leaves the wait.
C5_StopEndsWaitWithinOneStep ==
    [][\A s \in Slots :
         (th[s].pc = "wait" /\ ~is_running /\ th'[s] # th[s])
         => th'[s].pc # "wait"]_vars

C8_OneOrderInFlight == Cardinality({s \in Slots : InFlight(s)}) <= 1

\* C9: a step of an HTTP handler (start_bot, stop_bot, force_stop, manual
\* buy, manual sell) leaves the position state (last_position, entry price,
\* last buy price, RSI-cycle flag) and trade_history unchanged.
C9_HandlersLeavePositionState ==
    [][((\E s \in Slots : th[s].role = "manual" /\ th'[s] # th[s])
        \/ is_running' # is_running
        \/ (\E s \in Slots : th[s].pc = "free" /\ th'[s].pc # "free"))
       => UNCHANGED <<last_position, entry_price, last_buy_price,
                      rsi_cycle_complete, trade_history>>]_vars

\* C10: no order request of execute_buy_order / execute_sell_order is in
\* flight whose quantity times the price fetched in that call is below the
\* minimum notional.
C10_NotionalAtLeastMinimum ==
    \A s \in Slots :
        (InFlight(s) /\ th[s].role = "loop")
        => th[s].qty * th[s].price >= MinNotional * SolUnit

\* thread s runs execute_buy_order / execute_sell_order (solana_bot.py's
\* manual handlers run their own copy of the order code instead)
InExecutor(s) ==
    /\ th[s].pc \in ExecPcs
    /\ th[s].role = "loop" \/ bot = "app"

C12_SellQtyWithinBalance ==
    [][\A s \in Slots :
         (th[s].pc = "x_price" /\ th[s].side = "sell" /\ th'[s].pc = "x_ord1")
         => th'[s].qty <= th[s].bal]_vars

\* C13: solana_bot.py: in a tick whose price gives a profit of at least
\* profit_target_percent over last_buy_price while last_position is 'long',
\* the loop calls execute_sell_order, whatever the RSI signal and the
\* rsi_cycle_complete flag are: get_trading_signals answers PROFIT_SELL,
\* and the loop, still long, enters execute_sell_order on PROFIT_SELL.
C13_ProfitTargetSells ==
    [][\A s \in Slots :
         (bot = "solana" /\ th[s].role = "loop" /\ th'[s] # th[s] /\ is_running)
         => /\ (th[s].pc = "klines" /\ th'[s].pc = "bal"
                  /\ ProfitTargetReached(th'[s].sprice))
               => th'[s].sig = "PROFIT_SELL"
            /\ (th[s].pc = "bal" /\ th[s].sig = "PROFIT_SELL"
                  /\ last_position = "long")
               => th'[s].pc = "x_enter" /\ th'[s].side = "sell"]_vars

C15_ThirdMissSells ==
    [][\A s \in Slots :
         (/\ th[s].role = "loop"
          /\ th[s].misses = MaxMisses - 1
          /\ th'[s].misses = MaxMisses)
         => /\ th'[s].pc \in ExecPcs
            /\ th'[s].side = "sell"]_vars

C17_NoPriceNoOrder ==
    [][\A s \in Slots :
         (InExecutor(s) /\ th[s].pc = "x_price" /\ th'[s] # th[s])
         => /\ th'[s].pc \in ExecPcs
               => /\ th'[s].pc = "x_ord1"
                  /\ th'[s].price \in Prices
                  /\ Answered(s)
            /\ th'[s].pc \notin ExecPcs
               => /\ th'[s].res # "ok"
                  /\ th'[s].sent = <<>>
                  /\ trade_history' = trade_history]_vars

\* an executor's ticker request came back as an error without being sent
C17_Witness ==
    \E s \in Slots :
        /\ InExecutor(s)
        /\ th[s].pc = "x_price"
        /\ th[s].req = "refused"
        /\ th[s].bal > 0

\* C18: the trading loop ends only when is_running is False; an exception
\* raised in a tick is caught, leaves is_running as it was, and the loop
\* goes on after its wait.
C18_LoopEndsOnlyWhenStopped ==
    [][\A s \in Slots :
         /\ (th[s].role = "loop" /\ th'[s].role # "loop") => ~is_running'
         /\ (th[s].role = "loop" /\ th[s].res # "raised" /\ th'[s].res = "raised")
            => /\ is_running' = is_running
               /\ th'[s].role = "loop"
               /\ th'[s].pc = IF bot = "app" \/ is_running THEN "wait" ELSE "top"
         /\ (th[s].role = "loop" /\ th[s].pc = "wait" /\ th'[s] # th[s])
            => /\ th'[s].role = "loop"
               /\ th'[s].pc \in {"wait", "top"}
               /\ th'[s].pc = "wait" => th'[s].wleft < th[s].wleft]_vars

\* a running loop is in the wait of its exception handler
C18_Witness ==
    \E s \in Slots :
        /\ th[s].role = "loop"
        /\ th[s].pc = "wait"
        /\ th[s].res = "raised"
        /\ is_running

\* C19: without full credentials start_bot answers an error, is_running
\* stays False and no loop thread is started.
C19_NoStartWithoutCredentials ==
    ~is_configured => /\ ~is_running
                      /\ \A s \in Slots : th[s].role # "loop"

\* start_bot was called without credentials and answered its error
C19_Witness ==
    /\ ~is_configured
    /\ start_error

\* C20: simple_bot.py get_trading_signals: for every triple of indicator
\* signals in {-1, 0, 1} the consensus is BUY when at least two are +1,
\* SELL when at least two are -1, NEUTRAL otherwise.
C20_TwoOfThree ==
    \A s \in Slots :
        (bot = "simple" /\ th[s].pc = "bal")
        => LET v == th[s].votes
               Two(x) == \E i, j \in 1..3 : i # j /\ v[i] = x /\ v[j] = x
           IN /\ Len(v) = 3
              /\ Two(1) => th[s].sig = "BUY"
              /\ Two(-1) => th[s].sig = "SELL"
              /\ ~Two(1) /\ ~Two(-1) => th[s].sig = "NEUTRAL"

\* the vote 1, -1, 1 was taken and gave BUY
C20_Witness ==
    \E s \in Slots :
        /\ bot = "simple"
        /\ th[s].pc = "bal"
        /\ th[s].votes = <<1, -1, 1>>
        /\ th[s].sig = "BUY"

\* C21: app.py get_aggressive_signals: whatever the RSI, the MACD signal
\* and the volume strength are, a trend strength whose absolute value is
\* below config.trend_strength_min gives the action HOLD.
C21_WeakTrendHolds ==
    \A s \in Slots :
        (bot = "app" /\ th[s].pc = "sigprice" /\ th[s].sig # "NODATA"
           /\ Abs(th[s].trend) < trend_strength_min)
        => th[s].sig = "HOLD"

\* signals were computed from candles with a weak rising trend
C21_Witness ==
    \E s \in Slots :
        /\ bot = "app"
        /\ th[s].pc = "sigprice"
        /\ th[s].sig = "HOLD"
        /\ th[s].trend = 20

\* C22: solana_bot.py get_trading_signals changes no state, and two calls
\* that see the same candle data (the last two RSI values and the close)
\* give the same consensus whatever the trading state is at each call.
C22_SignalsIdempotent ==
    [][\A s \in Slots :
         (bot = "solana" /\ th[s].pc = "klines" /\ th'[s].pc = "bal")
         => /\ UNCHANGED <<rsi_cycle_complete, last_rsi_value>>
            /\ \A r \in Slots :
                 (/\ r # s
                  /\ th[r].pc = "bal"
                  /\ th[r].votes = th'[s].votes
                  /\ th[r].sprice = th'[s].sprice)
                 => th[r].sig = th'[s].sig]_vars

\* C23: simple_bot.py calculate_rsi_simple: when the average loss over the
\* window is zero and the average gain is positive, the signal is the one
\* of RSI = 100: overbought, -1.
C23_AllGainsOverbought ==
    (/\ Len(data) > rsi_simple_period
     /\ SumSeq(LastK(Changes(data, FALSE), rsi_simple_period)) = 0
     /\ SumSeq(LastK(Changes(data, TRUE), rsi_simple_period)) > 0
     /\ Computed("rsi"))
    => <<"rsi", -1>> \in signals

\* C24: simple_bot.py: every indicator gives 0 for a series shorter than
\* its lookback, the empty series included: fewer than period + 1 candles
\* for the supertrend, fewer than slow closes for the MACD, at most period
\* closes for the RSI.
C24_ShortSeriesNeutral ==
    /\ (Len(data) < st_period + 1 /\ Computed("supertrend"))
       => <<"supertrend", 0>> \in signals
    /\ (Len(data) < macd_slow /\ Computed("macd"))
       => <<"macd", 0>> \in signals
    /\ (Len(data) <= rsi_simple_period /\ Computed("rsi"))
       => <<"rsi", 0>> \in signals

C27_BuysNeedRsiCycle ==
    [][(bot = "solana" /\ require_rsi_cycle)
       => /\ \A s \in Slots :
               (/\ th[s].role = "loop"
                /\ th[s].side = "buy"
                /\ th[s].pc \in {"x_ord1", "x_ord2"}
                /\ th'[s].pc = "x_refresh")
               => ~rsi_cycle_complete'
          /\ \A s \in Slots :
               (/\ th[s].role = "loop"
                /\ th[s].pc = "klines"
                /\ th'[s].sig = "BUY")
               => rsi_cycle_complete'
          /\ (last_position # "none" /\ ~rsi_cycle_complete /\ rsi_cycle_complete')
             => /\ last_rsi_value > rsi_overbought
                /\ last_rsi_value' < rsi_oversold]_vars

\* C28: solana_bot.py: the trading loop never sells at a loss: the price at
\* which execute_sell_order places a sell for the loop (the price of the
\* trade the loop then records) is not below the last_buy_price held at
\* that moment.
C28_NoSellAtLoss ==
    [][\A s \in Slots :
         (/\ bot = "solana"
          /\ th[s].role = "loop"
          /\ th[s].side = "sell"
          /\ th[s].pc = "x_price"
          /\ th'[s].pc = "x_ord1"
          /\ last_buy_price # 0)
         => th'[s].price >= last_buy_price]_vars

C31_LossLimitStopsTick ==
    [][\A s \in Slots :
         (/\ th[s].role = "loop"
          /\ th[s].pc = "top"
          /\ is_running
          /\ daily_starting_balance > 0
          /\ current_total * 100
               <= (100 - max_daily_loss) * daily_starting_balance
          /\ th'[s] # th[s])
         => /\ is_running' = FALSE
            /\ th[s].sent = <<>>
            /\ th'[s].pc = "free"
            /\ th'[s].sent = <<>>]_vars

\* a loop thread has ended on the daily loss limit, the loss being exactly
\* max_daily_loss
C31_Witness ==
    \E s \in Slots :
        /\ th[s].pc = "free"
        /\ th[s].res = "risk_limit"
        /\ ~is_running
        /\ current_total * 100 = (100 - max_daily_loss) * daily_starting_balance

\* C32: update_settings is all-or-nothing, so that every setting stored in
\* config is one the handler accepts: check_interval is at least 60,
\* trade_percentage between 1 and 100 and, in solana_bot.py,
\* sol_trade_amount between 0.01 and 1000 SOL.
C32_SettingsAlwaysValid ==
    /\ config.check_interval >= 60
    /\ config.trade_percentage \in 1..100
    /\ bot = "solana" =>
         /\ ~config.sol_trade_amount.nan
         /\ config.sol_trade_amount.v \in 1000..(1000 * SolUnit)

\* C33: simple_bot.py: no two consecutive records of trade_history have
\* the same action: BUY and SELL alternate.
C33_HistoryAlternates ==
    bot = "simple" =>
        \A i \in 1..(Len(trade_history) - 1) :
            trade_history[i] # trade_history[i + 1]

\* C34: solana_bot.py: whenever no order code is running (no thread is
\* between the entry of an executor or manual handler and its return),
\* last_position = 'long' implies that last_buy_price is set, so that the
\* profit-target and the RSI sell rule can close the position.
C34_LongHasBuyPrice ==
    (/\ bot = "solana"
     /\ last_position = "long"
     /\ \A s \in Slots : th[s].pc \notin ExecPcs)
    => last_buy_price # 0

\* C35: a step of a thread taken while is_running is False sends no
\* request to the exchange except to the balance endpoint (the requests of
\* "bal", "x_bal" and "x_refresh"): no candle, ticker or order request of
\* the loop or of a manual handler goes out while the bot is stopped.
C35_StoppedSendsOnlyBalance ==
    [][\A s \in Slots :
         (/\ ~is_running
          /\ th'[s] # th[s]
          /\ th'[s].req = "sent")
         => th'[s].pc \in {"bal", "x_bal", "x_refresh"}]_vars

\* an order request was refused by make_api_request because the bot had
\* been stopped: nothing else refuses with credentials and base_url set
C35_Witness ==
    \E s \in Slots :
        /\ th[s].pc \in {"x_ord1", "x_ord2"}
        /\ th[s].req = "refused"
        /\ th[s].sent # <<>>
        /\ is_configured
        /\ has_base_url
        /\ ~is_running

\* C36: solana_bot.py execute_buy_order: the cost of every buy order
\* submitted, quantity times price (the current price for the market order,
\* 1.005 times it for the limit fallback), is at most the USDT balance
\* fetched in that call.
C36_BuyCostWithinBalance ==
    \A s \in Slots :
        (/\ bot = "solana"
         /\ th[s].role = "loop"
         /\ th[s].side = "buy"
         /\ th[s].req = "sent")
        => /\ th[s].pc = "x_ord1" =>
                th[s].qty * th[s].price <= th[s].bal * SolUnit
           /\ th[s].pc = "x_ord2" =>
                th[s].qty * BuyLimitPrice(th[s].price)
                    <= th[s].bal * SolUnit * 100

\* C37: app.py: with credentials configured and the bot running, a request
\* a thread makes goes out to the exchange (make_api_request does not
\* return an error of its own), so that the tick can reach its order.
C37_RunningRequestsAreSent ==
    [][\A s \in Slots :
         (/\ bot = "app"
          /\ is_configured
          /\ is_running
          /\ th'[s] # th[s]
          /\ th'[s].req # "none")
         => th'[s].req = "sent"]_vars

====
